---- MODULE Spec2Model ----
(***************************************************************************)
(* Document Complexity Detector (src/app.py).                              *)
(*                                                                         *)
(* The module models the per-table classifier calculate_table_complexity,  *)
(* the three format extractors, the scorer at the end of                   *)
(* calculate_document_complexity and the Streamlit upload handler that     *)
(* stores every upload in temp_uploaded.<ext>.                             *)
(***************************************************************************)
EXTENDS Integers, Sequences, FiniteSets, TLC

VARIABLES
    table,      \* the argument of calculate_table_complexity
    tres,       \* the outcome of that call
    features,   \* the four measurements handed to the scorer
    report,     \* the report the scorer builds from them
    doc,        \* the document behind file_path
    file_type,  \* the file_type argument of calculate_document_complexity
    docres,     \* the outcome of calculate_document_complexity
    lay,        \* the locals of analyze_layout_complexity_pdf during its loop
    fs,         \* the working directory: path -> the file's blocks
    req         \* the upload requests (Streamlit sessions) in progress

vars == <<table, tres, features, report, doc, file_type, docres, lay, fs, req>>

(***************************************************************************)
(* Bounds of the model.                                                    *)
(***************************************************************************)
MaxRows == 2

MaxCols == 3

GridRows == 2

GridCols == 5

MaxMeasure == 5

MaxDeckShapes == 5

MaxSlides == 2

MaxPdfPages == 2

MaxPageImages == 1

MaxDocxTables == 1

MaxDocxImages == 1

MaxDocxParagraphs == 2

MaxDocxSections == 2

MaxSectionCols == 2

MaxLayoutPages == 2

MaxPageElements == 6

NumRequests == 2

MaxFileBlocks == 2

(***************************************************************************)
(* Python values.  A cell is None, a str or a list.  A str has in val the  *)
(* code points of its characters, each in Chars (ISO 8859-1); a list has   *)
(* in items its items, each again a Python value.                          *)
(***************************************************************************)
PyNone == [type |-> "NoneType", val |-> <<>>, items |-> <<>>]

PyStr(chars) == [type |-> "str", val |-> chars, items |-> <<>>]

PyList(items) == [type |-> "list", val |-> <<>>, items |-> items]

\* bool(x): None, "" and [] are falsy.
truthy(x) ==
    IF x.type = "str" THEN x.val # <<>>
    ELSE IF x.type = "list" THEN x.items # <<>> ELSE FALSE

isinstance(x, cls) == x.type = cls

Chars == 0..255

\* str.isspace() of one character: \t \n \v \f \r, \x1c-\x1f, the space,
\* \x85 and \xa0.  str.strip() and str.split() use the same test.
Whitespace == (9..13) \cup (28..32) \cup {133, 160}

\* str.isalpha() of one character: A-Z, a-z, the ordinal indicators, the
\* micro sign and the accented letters.
Alphabetic ==
    (65..90) \cup (97..122) \cup {170, 181, 186}
    \cup (192..214) \cup (216..246) \cup (248..255)

\* str.isprintable() of one character.
Printable == (32..126) \cup (161..172) \cup (174..255)

RECURSIVE lstrip(_)
lstrip(s) ==
    IF s = <<>> THEN <<>>
    ELSE IF Head(s) \in Whitespace THEN lstrip(Tail(s)) ELSE s

RECURSIVE rstrip(_)
rstrip(s) ==
    IF s = <<>> THEN <<>>
    ELSE IF s[Len(s)] \in Whitespace THEN rstrip(SubSeq(s, 1, Len(s) - 1)) ELSE s

\* str.strip()
strip(s) == rstrip(lstrip(s))

RECURSIVE split_from(_, _, _, _)
split_from(s, i, cur, acc) ==
    IF i > Len(s) THEN (IF cur = <<>> THEN acc ELSE Append(acc, cur))
    ELSE IF s[i] \in Whitespace
         THEN split_from(s, i + 1, <<>>, IF cur = <<>> THEN acc ELSE Append(acc, cur))
         ELSE split_from(s, i + 1, Append(cur, s[i]), acc)

\* str.split(): the maximal runs of non-whitespace characters.
split(s) == split_from(s, 1, <<>>, <<>>)

\* str.isalpha(): at least one character and all of them alphabetic.
isalpha(s) == Len(s) > 0 /\ \A i \in 1..Len(s) : s[i] \in Alphabetic

\* repr() of a str encloses it in " when it holds a ' and no ", else in '.
repr_quote(s) ==
    IF (\E i \in 1..Len(s) : s[i] = 39) /\ ~(\E i \in 1..Len(s) : s[i] = 34)
    THEN 34 ELSE 39

\* One character inside the quotes: \\ and the quote are escaped, \t \n \r
\* are written so, any other unprintable character as \xhh.
repr_char(c, quote) ==
    IF c = quote \/ c = 92 THEN <<92, c>>
    ELSE IF c = 9 THEN <<92, 116>>
    ELSE IF c = 10 THEN <<92, 110>>
    ELSE IF c = 13 THEN <<92, 114>>
    ELSE IF c \in Printable THEN <<c>>
    ELSE LET hex_digit(n) == IF n < 10 THEN 48 + n ELSE 87 + n
         IN  <<92, 120, hex_digit(c \div 16), hex_digit(c % 16)>>

RECURSIVE repr_chars(_, _)
repr_chars(s, quote) ==
    IF s = <<>> THEN <<>>
    ELSE repr_char(Head(s), quote) \o repr_chars(Tail(s), quote)

RECURSIVE repr(_)
RECURSIVE repr_items(_)
\* repr(x): None, 'text' or [item, item]
repr(x) ==
    IF x.type = "NoneType" THEN <<78, 111, 110, 101>>
    ELSE IF x.type = "str"
    THEN LET quote == repr_quote(x.val)
         IN  <<quote>> \o repr_chars(x.val, quote) \o <<quote>>
    ELSE <<91>> \o repr_items(x.items) \o <<93>>

repr_items(items) ==
    IF items = <<>> THEN <<>>
    ELSE repr(Head(items))
         \o (IF Len(items) > 1 THEN <<44, 32>> ELSE <<>>)
         \o repr_items(Tail(items))

\* str(x): the text itself; of None and of a list, the repr.
str(x) == IF x.type = "str" THEN x.val ELSE repr(x)

(***************************************************************************)
(* IEEE-754 binary64 values between 0 and 2, held exactly as the integer   *)
(* v = x * 2^55 in two limbs <<hi, lo>>, v = hi * 2^28 + lo.  A float of   *)
(* this range has 53 significant bits, so v is a multiple of 1, 2, 4, 8 or *)
(* 16 according to its binade.  The literals are the doubles Python reads: *)
(* 0.2 = 0x1.999999999999ap-3, 0.3 = 0x1.3333333333333p-2,                 *)
(* 0.4 = 0x1.999999999999ap-2, 0.6 = 0x1.3333333333333p-1.                 *)
(***************************************************************************)
Two28 == 2^28

F_0 == <<0, 0>>

F_0_2 == <<26843545, 161061274>>

F_0_3 == <<40265318, 107374182>>

F_0_4 == <<53687091, 53687092>>

F_0_6 == <<80530636, 214748364>>

\* The spacing of the doubles in the binade of hi * 2^28 + lo.
ulp(hi) ==
    IF hi < 2^25 THEN 1
    ELSE IF hi < 2^26 THEN 2
    ELSE IF hi < 2^27 THEN 4
    ELSE IF hi < 2^28 THEN 8 ELSE 16

\* float.__add__: the exact sum rounded to nearest, ties to even.
float_add(x, y) ==
    LET lo0  == x[2] + y[2]
        lo   == lo0 % Two28
        hi   == x[1] + y[1] + (lo0 \div Two28)
        q    == ulp(hi)
        r    == lo % q
        base == lo - r
        up   == (2 * r > q) \/ (2 * r = q /\ (base \div q) % 2 = 1)
        lo2  == IF up THEN base + q ELSE base
    IN  <<hi + (lo2 \div Two28), lo2 % Two28>>

\* x <= y on floats.
float_le(x, y) == x[1] < y[1] \/ (x[1] = y[1] /\ x[2] <= y[2])

(***************************************************************************)
(* calculate_table_complexity (src/app.py:12-34).                          *)
(***************************************************************************)
RECURSIVE flatten(_)
\* "for row in table for cell in row": the cells in iteration order.
flatten(t) == IF t = <<>> THEN <<>> ELSE Head(t) \o flatten(Tail(t))

RECURSIVE sum_seq(_)
sum_seq(xs) == IF xs = <<>> THEN 0 ELSE Head(xs) + sum_seq(Tail(xs))

RECURSIVE max_seq(_)
\* max() of a non-empty sequence of naturals.
max_seq(xs) ==
    IF Len(xs) = 1 THEN xs[1]
    ELSE LET m == max_seq(Tail(xs)) IN IF xs[1] > m THEN xs[1] ELSE m

\* sum(1 for x in xs if cond(x)), on the sequence of the conditions' values.
count_true(flags) == Cardinality({i \in 1..Len(flags) : flags[i]})

num_rows(t) == Len(t)

row_lengths(t) == [i \in 1..Len(t) |-> Len(t[i])]

\* line 14: max(len(row) for row in table) if table else 0
num_cols(t) == IF t # <<>> THEN max_seq(row_lengths(t)) ELSE 0

total_cells(t) == num_rows(t) * num_cols(t)

\* line 16, one cell: "not cell or cell.strip() == ''".  The second operand is
\* evaluated for truthy cells only, and only a str has strip().
strip_raises(cell) == truthy(cell) /\ ~isinstance(cell, "str")

is_empty_cell(cell) ==
    ~truthy(cell) \/ (isinstance(cell, "str") /\ strip(cell.val) = <<>>)

empty_cells(t) == LET xs == flatten(t) IN count_true([k \in 1..Len(xs) |-> is_empty_cell(xs[k])])

\* a / b on ints: ZeroDivisionError, or the quotient held as the fraction num/den.
true_div(a, b) ==
    IF b = 0 THEN [exc |-> "ZeroDivisionError", num |-> 0, den |-> 1]
    ELSE [exc |-> "", num |-> a, den |-> b]

\* The division without its guard.
merged_cell_ratio_unguarded(e, total) == true_div(e, total)

\* line 17: empty_cells / total_cells if total_cells else 0
merged_cell_ratio(e, total) ==
    IF total # 0 THEN true_div(e, total) ELSE [exc |-> "", num |-> 0, den |-> 1]

\* The comparison with >= in place of >.
ge_0_2(ratio) == 5 * ratio.num >= ratio.den

\* "ratio > 0.2".  The quotient e/t is correctly rounded and 0.2 is the double
\* nearest 1/5, so for t < 2^50 the float comparison decides e/t > 1/5.
gt_0_2(ratio) == 5 * ratio.num > ratio.den

\* line 19: np.std(row_lengths) > 1.  np.std is the population standard
\* deviation sqrt(mean((x - mean)^2)); of no rows it is nan, and nan > 1 is False.
\* With n = len(xs): std > 1 iff n * sum(x^2) - sum(x)^2 > n^2.
row_length_variation(xs) ==
    IF xs = <<>> THEN FALSE
    ELSE LET n  == Len(xs)
             s1 == sum_seq(xs)
             s2 == sum_seq([i \in 1..n |-> xs[i] * xs[i]])
         IN  n * s2 - s1 * s1 > n * n

\* line 20, one cell.
is_nested_cell(cell) == isinstance(cell, "list") \/ Len(split(str(cell))) > 15

nested_table(t) ==
    LET cells == flatten(t) IN \E i \in 1..Len(cells) : is_nested_cell(cells[i])

\* line 21, one row: all(cell and cell.isalpha() for cell in row if isinstance(cell, str))
is_header_row(row) ==
    \A i \in 1..Len(row) :
        isinstance(row[i], "str") => (truthy(row[i]) /\ isalpha(row[i].val))

\* line 21: table[:3]
first_rows(t) == SubSeq(t, 1, IF Len(t) < 3 THEN Len(t) ELSE 3)

header_count(t) == LET xs == first_rows(t) IN count_true([k \in 1..Len(xs) |-> is_header_row(xs[k])])

RECURSIVE word_counts_of(_)
\* line 22: [len(str(cell).split()) for ... if cell]
word_counts_of(cells) ==
    IF cells = <<>> THEN <<>>
    ELSE (IF truthy(Head(cells)) THEN <<Len(split(str(Head(cells))))>> ELSE <<>>)
         \o word_counts_of(Tail(cells))

word_counts(t) == word_counts_of(flatten(t))

\* lines 23-24: np.mean(wc) > np.percentile(wc, 75) if wc else False.
\* The percentile interpolates linearly at position 0.75 * (n - 1) of the
\* sorted sample: with k = 3 * (n - 1), a = sorted[k div 4], b the next item,
\* 4 * p75 = 4 * a + (k mod 4) * (b - a); the mean is sum / n.
high_density(wc) ==
    IF wc = <<>> THEN FALSE
    ELSE LET n  == Len(wc)
             s  == SortSeq(wc, LAMBDA x, y : x < y)
             k  == 3 * (n - 1)
             a  == s[(k \div 4) + 1]
             b  == s[IF (k \div 4) + 2 > n THEN n ELSE (k \div 4) + 2]
         IN  4 * sum_seq(wc) > n * (4 * a + (k % 4) * (b - a))

\* lines 26-32: the five terms, added left to right.
score_of(sig) ==
    float_add(float_add(float_add(float_add(
        (IF sig.merged THEN F_0_4 ELSE F_0),
        (IF sig.variation THEN F_0_3 ELSE F_0)),
        (IF sig.nested THEN F_0_4 ELSE F_0)),
        (IF sig.header THEN F_0_3 ELSE F_0)),
        (IF sig.density THEN F_0_2 ELSE F_0))

\* line 33
complexity_label(score) ==
    IF float_le(score, F_0_3) THEN "Simple"
    ELSE IF float_le(score, F_0_6) THEN "Moderate" ELSE "Complex"

NoSignals ==
    [merged |-> FALSE, variation |-> FALSE, nested |-> FALSE,
     header |-> FALSE, density |-> FALSE]

Raised(exc) ==
    [status |-> "raised", exc |-> exc, score |-> F_0, label |-> "", sig |-> NoSignals]

\* The call's outcome: the exception it raises, or (score, complexity_label)
\* together with the five conditions of lines 27-31.
calculate_table_complexity(t) ==
    LET cells == flatten(t)
        ratio == merged_cell_ratio(empty_cells(t), total_cells(t))
    IN  IF \E i \in 1..Len(cells) : strip_raises(cells[i])
        THEN Raised("AttributeError")
        ELSE IF ratio.exc # ""
        THEN Raised(ratio.exc)
        ELSE LET sig == [merged    |-> gt_0_2(ratio),
                         variation |-> row_length_variation(row_lengths(t)),
                         nested    |-> nested_table(t),
                         header    |-> header_count(t) > 1,
                         density   |-> high_density(word_counts(t))]
                 score == score_of(sig)
             IN  [status |-> "returned", exc |-> "", score |-> score,
                  label |-> complexity_label(score), sig |-> sig]

(***************************************************************************)
(* Inputs of the classifier.                                               *)
(***************************************************************************)
SeqsUpTo(S, n) == UNION {[1..k -> S] : k \in 0..n}

CellEmpty == PyStr(<<>>)

\* " \r": a space and a carriage return
CellSpace == PyStr(<<32, 13>>)

\* "ab"
CellAlpha == PyStr(<<97, 98>>)

\* "a1"
CellNum == PyStr(<<97, 49>>)

\* "a1 a1 ... a1": 16 words separated by single spaces
CellLong ==
    PyStr([i \in 1..47 |-> IF i % 3 = 1 THEN 97 ELSE IF i % 3 = 2 THEN 49 ELSE 32])

ListEmpty == PyList(<<>>)

\* ["a"]
ListOne == PyList(<<PyStr(<<97>>)>>)

Cells == {CellEmpty, CellAlpha, CellNum, CellLong, PyNone, ListEmpty, ListOne}

\* The rows of at most cols cells.
Rows(cols) == SeqsUpTo(Cells, cols)

\* Grids whose rows are b blank cells followed by filled cells.
GridBlanks == {CellEmpty, CellSpace, PyNone}

GridFills == {CellAlpha, CellLong}

GridRowsOf(blank, fill, cols) ==
    UNION {{[i \in 1..len |-> IF i <= b THEN blank ELSE fill] : b \in 0..len}
           : len \in 0..cols}

(***************************************************************************)
(* Documents, as the parsing libraries expose them.                        *)
(*   pdf : pages, each with the tables pdfplumber extracts, the number of  *)
(*         images PyMuPDF lists and the layout elements pdfminer yields;   *)
(*   docx: tables (grids of cell text), the number of inline shapes, the   *)
(*         paragraphs and, per section, the number of w:col elements;      *)
(*   pptx: slides, each a sequence of shapes.                              *)
(* A text of which the code reads only len() is held by its length.        *)
(* A file that is no document of the expected format (an empty file, a     *)
(* file of another format) makes the library that opens it raise.          *)
(***************************************************************************)
Value(v) == [status |-> "returned", exc |-> "", val |-> v]

Failure(exc) == [status |-> "raised", exc |-> exc, val |-> 0]

table_raises(t) == calculate_table_complexity(t).status = "raised"

\* calculate_table_complexity(table)[1] == "Complex"
is_complex(t) == calculate_table_complexity(t).label = "Complex"

\* lines 37-43
count_complex_tables_pdf(d) ==
    IF d.kind # "pdf" THEN Failure("PDFSyntaxError")
    ELSE IF \E i \in 1..Len(d.pages) : \E k \in 1..Len(d.pages[i].tables) :
                table_raises(d.pages[i].tables[k])
    THEN Failure("AttributeError")
    ELSE Value(sum_seq([i \in 1..Len(d.pages) |-> LET xs == d.pages[i].tables IN count_true([k \in 1..Len(xs) |-> is_complex(xs[k])])]))

\* lines 45-47
count_images_pdf(d) ==
    IF d.kind # "pdf" THEN Failure("FileDataError")
    ELSE Value(sum_seq([i \in 1..Len(d.pages) |-> d.pages[i].images]))

\* isinstance(element, LTTextBox): LTTextBoxHorizontal and LTTextBoxVertical
\* are its subclasses.
is_LTTextBox(element) ==
    element.cls \in {"LTTextBox", "LTTextBoxHorizontal", "LTTextBoxVertical"}

\* line 53, one element
is_dense_element(element) == is_LTTextBox(element) /\ element.text_len > 500

\* line 53
paragraph_count(page_layout) == LET xs == page_layout IN count_true([k \in 1..Len(xs) |-> is_dense_element(xs[k])])

\* The loop body with the running total in the test.
layout_page_running_total(st, page_layout) ==
    [num_columns |-> IF st.dense_paragraphs + paragraph_count(page_layout) > 5
                     THEN 2 ELSE st.num_columns,
     dense_paragraphs |-> st.dense_paragraphs + paragraph_count(page_layout)]

\* lines 53-56: one iteration of the loop over the pages.
layout_page(st, page_layout) ==
    [num_columns |-> IF paragraph_count(page_layout) > 5 THEN 2 ELSE st.num_columns,
     dense_paragraphs |-> st.dense_paragraphs + paragraph_count(page_layout)]

\* lines 50-51
layout_start == [num_columns |-> 1, dense_paragraphs |-> 0]

RECURSIVE layout_loop(_, _)
layout_loop(st, layouts) ==
    IF layouts = <<>> THEN st
    ELSE layout_loop(layout_page(st, Head(layouts)), Tail(layouts))

\* lines 49-57: (num_columns, dense_paragraphs)
analyze_layout_complexity_pdf(d) ==
    IF d.kind # "pdf" THEN Failure("PDFSyntaxError")
    ELSE LET st == layout_loop(layout_start, [i \in 1..Len(d.pages) |-> d.pages[i].layout])
         IN  Value(<<st.num_columns, st.dense_paragraphs>>)

\* lines 60-62: the tables are grids of cell.text
count_tables_docx(d) ==
    IF d.kind # "docx" THEN Failure("PackageNotFoundError")
    ELSE IF \E k \in 1..Len(d.tables) : table_raises(d.tables[k])
    THEN Failure("AttributeError")
    ELSE Value(LET xs == d.tables IN count_true([k \in 1..Len(xs) |-> is_complex(xs[k])]))

\* lines 64-65
count_images_docx(d) ==
    IF d.kind # "docx" THEN Failure("PackageNotFoundError")
    ELSE Value(d.inline_shapes)

is_dense_paragraph(text_len) == text_len > 500

RECURSIVE section_columns(_, _)
\* lines 70-73: a section counts when its list of w:col elements is not empty.
section_columns(num_columns, sections) ==
    IF sections = <<>> THEN num_columns
    ELSE section_columns(
            IF Head(sections) > 0
            THEN (IF Head(sections) > num_columns THEN Head(sections) ELSE num_columns)
            ELSE num_columns,
            Tail(sections))

\* lines 67-74
analyze_layout_complexity_docx(d) ==
    IF d.kind # "docx" THEN Failure("PackageNotFoundError")
    ELSE Value(<<section_columns(1, d.sections), LET xs == d.paragraphs IN count_true([k \in 1..Len(xs) |-> is_dense_paragraph(xs[k])])>>)

\* "for slide in ppt.slides for shape in slide.shapes"
shapes_of(d) == flatten(d.slides)

has_complex_table(shape) == shape.has_table /\ is_complex(shape.table)

\* lines 77-79
count_tables_pptx(d) ==
    IF d.kind # "pptx" THEN Failure("PackageNotFoundError")
    ELSE LET xs == shapes_of(d)
         IN  IF \E k \in 1..Len(xs) : xs[k].has_table /\ table_raises(xs[k].table)
             THEN Failure("AttributeError")
             ELSE Value(count_true([k \in 1..Len(xs) |-> has_complex_table(xs[k])]))

\* shape.shape_type == 13 (MSO_SHAPE_TYPE.PICTURE)
is_picture(shape) == shape.shape_type = 13

\* lines 81-82
count_images_pptx(d) ==
    IF d.kind # "pptx" THEN Failure("PackageNotFoundError")
    ELSE Value(LET xs == shapes_of(d) IN count_true([k \in 1..Len(xs) |-> is_picture(xs[k])]))

\* line 86, one shape
is_dense_shape(shape) == shape.has_text_frame /\ shape.text_len > 500

\* line 87: 1 if dense_paragraphs < 5 else 2
pptx_columns(dense_paragraphs) == IF dense_paragraphs < 5 THEN 1 ELSE 2

\* lines 84-87
analyze_layout_complexity_pptx(d) ==
    IF d.kind # "pptx" THEN Failure("PackageNotFoundError")
    ELSE LET dense_paragraphs == LET xs == shapes_of(d) IN count_true([k \in 1..Len(xs) |-> is_dense_shape(xs[k])])
         IN  Value(<<pptx_columns(dense_paragraphs), dense_paragraphs>>)

(***************************************************************************)
(* The scorer: lines 105-118 of calculate_document_complexity.             *)
(***************************************************************************)
\* line 106
layout_score(num_columns, dense_paragraphs) ==
    IF num_columns > 1 \/ dense_paragraphs > 0
    THEN num_columns * 20 + dense_paragraphs * 5 ELSE 0

\* The thresholds with >= in place of >.
complexity_level_ge(final_score) ==
    IF final_score >= 100 THEN "High" ELSE IF final_score >= 50 THEN "Medium" ELSE "Low"

\* line 109
complexity_level(final_score) ==
    IF final_score > 100 THEN "High" ELSE IF final_score > 50 THEN "Medium" ELSE "Low"

\* lines 105-118: the report, by the keys of the returned dict.
complexity_report(num_complex_tables, num_columns, dense_paragraphs, num_images) ==
    LET table_score == num_complex_tables * 20
        image_score == num_images * 10
        final_score == table_score + layout_score(num_columns, dense_paragraphs) + image_score
    IN  [ComplexTablesFound   |-> num_complex_tables,
         ColumnsDetected      |-> num_columns,
         DenseParagraphs      |-> dense_paragraphs,
         ImagesFound          |-> num_images,
         FinalComplexityScore |-> final_score,
         ComplexityLevel      |-> complexity_level(final_score)]

NoReport ==
    [ComplexTablesFound |-> -1, ColumnsDetected |-> -1, DenseParagraphs |-> -1,
     ImagesFound |-> -1, FinalComplexityScore |-> -1, ComplexityLevel |-> ""]

(***************************************************************************)
(* calculate_document_complexity (lines 90-118).  file_type is a Python    *)
(* value; the outcome lists the extractors called, in order.               *)
(***************************************************************************)
\* "pdf"
S_pdf == PyStr(<<112, 100, 102>>)

\* "docx"
S_docx == PyStr(<<100, 111, 99, 120>>)

\* "pptx"
S_pptx == PyStr(<<112, 112, 116, 120>>)

\* str.lower() of one character: A-Z and the accented capitals have their
\* small letter 32 places on.
lower_char(c) ==
    IF c \in (65..90) \cup (192..214) \cup (216..222) THEN c + 32 ELSE c

\* str.lower()
lower(x) == PyStr([i \in 1..Len(x.val) |-> lower_char(x.val[i])])

\* The comparisons made on the lower-cased type.
branch_ignoring_case(ft) ==
    IF ft.type # "str" THEN "none"
    ELSE IF lower(ft) = S_pdf THEN "pdf"
    ELSE IF lower(ft) = S_docx THEN "docx"
    ELSE IF lower(ft) = S_pptx THEN "pptx" ELSE "none"

\* lines 91, 95, 99: the branch taken; there is no else.
branch(ft) ==
    IF ft = S_pdf THEN "pdf"
    ELSE IF ft = S_docx THEN "docx"
    ELSE IF ft = S_pptx THEN "pptx" ELSE "none"

\* The slide-deck branch without line 103.
pptx_dense_kept(dense_paragraphs) == dense_paragraphs

\* line 103: dense_paragraphs = 0
pptx_dense_reported(dense_paragraphs) == 0

DocRaised(exc, calls) ==
    [status |-> "raised", exc |-> exc, calls |-> calls, report |-> NoReport]

DocReturned(rep, calls) ==
    [status |-> "returned", exc |-> "", calls |-> calls, report |-> rep]

\* lines 92, 96, 100: the table counter of the branch
tables_pass(b, d) ==
    IF b = "pdf" THEN count_complex_tables_pdf(d)
    ELSE IF b = "docx" THEN count_tables_docx(d) ELSE count_tables_pptx(d)

\* lines 93, 97, 101: the image counter of the branch
images_pass(b, d) ==
    IF b = "pdf" THEN count_images_pdf(d)
    ELSE IF b = "docx" THEN count_images_docx(d) ELSE count_images_pptx(d)

\* lines 94, 98, 102: the layout analysis of the branch
layout_pass(b, d) ==
    IF b = "pdf" THEN analyze_layout_complexity_pdf(d)
    ELSE IF b = "docx" THEN analyze_layout_complexity_docx(d)
    ELSE analyze_layout_complexity_pptx(d)

extractor_names(b) ==
    IF b = "pdf"
    THEN <<"count_complex_tables_pdf", "count_images_pdf", "analyze_layout_complexity_pdf">>
    ELSE IF b = "docx"
    THEN <<"count_tables_docx", "count_images_docx", "analyze_layout_complexity_docx">>
    ELSE <<"count_tables_pptx", "count_images_pptx", "analyze_layout_complexity_pptx">>

\* lines 103-118 on the values the extractors returned
finish(b, num_complex_tables, layout, num_images) ==
    complexity_report(
        num_complex_tables, layout[1],
        IF b = "pptx" THEN pptx_dense_reported(layout[2]) ELSE layout[2],
        num_images)

\* The extractors run in order; the first that raises ends the call.
run_extractors(b, tables, images, layout) ==
    IF tables.status = "raised" THEN DocRaised(tables.exc, SubSeq(extractor_names(b), 1, 1))
    ELSE IF images.status = "raised" THEN DocRaised(images.exc, SubSeq(extractor_names(b), 1, 2))
    ELSE IF layout.status = "raised" THEN DocRaised(layout.exc, extractor_names(b))
    ELSE DocReturned(finish(b, tables.val, layout.val, images.val), extractor_names(b))

calculate_document_complexity(d, ft) ==
    LET b == branch(ft)
    IN  IF b # "none"
        THEN run_extractors(b, tables_pass(b, d), images_pass(b, d), layout_pass(b, d))
        \* no branch taken: line 105 reads num_complex_tables, never assigned
        ELSE DocRaised("UnboundLocalError", <<>>)

(***************************************************************************)
(* Documents of the model.                                                 *)
(***************************************************************************)
\* empty-cell ratio 1/3 and two alphabetic rows: 0.4 + 0.3, Complex
ComplexSample == <<<<CellAlpha>>, <<CellAlpha>>, <<CellEmpty>>>>

SimpleSample == <<<<CellNum>>>>

TextShape(n) ==
    [has_table |-> FALSE, table |-> <<>>, has_text_frame |-> TRUE, text_len |-> n,
     shape_type |-> 17]

PictureShape ==
    [has_table |-> FALSE, table |-> <<>>, has_text_frame |-> FALSE, text_len |-> 0,
     shape_type |-> 13]

TableShape(t) ==
    [has_table |-> TRUE, table |-> t, has_text_frame |-> FALSE, text_len |-> 0,
     shape_type |-> 19]

Shapes == {TextShape(501), TextShape(500), TableShape(ComplexSample)}

\* The sequence s cut into Len(c) + 1 slides at the positions c.
SplitAt(s, c) ==
    [j \in 1..Len(c) + 1 |->
        SubSeq(s, (IF j = 1 THEN 0 ELSE c[j - 1]) + 1,
                  IF j = Len(c) + 1 THEN Len(s) ELSE c[j])]

Cuts(k, n) == {c \in [1..k -> 0..n] : \A i \in 1..k - 1 : c[i] <= c[i + 1]}

Deck(slides) == [kind |-> "pptx", slides |-> slides]

TextBox(n) == [cls |-> "LTTextBoxHorizontal", text_len |-> n]

Figure == [cls |-> "LTFigure", text_len |-> 0]

Repeat(x, n) == [i \in 1..n |-> x]

PdfPages(max_images) ==
    {[tables |-> ts, images |-> n, layout |-> l] :
        ts \in {<<>>, <<ComplexSample>>, <<SimpleSample, ComplexSample>>},
        n \in 0..max_images,
        l \in {<<>>, <<TextBox(500), Figure>>, Repeat(TextBox(501), 5),
               Repeat(TextBox(501), 6)}}

PdfDoc(pages) == [kind |-> "pdf", pages |-> pages]

DocxDoc(tables, inline_shapes, paragraphs, sections) ==
    [kind |-> "docx", tables |-> tables, inline_shapes |-> inline_shapes,
     paragraphs |-> paragraphs, sections |-> sections]

SamplePdf ==
    [kind |-> "pdf",
     pages |-> <<[tables |-> <<ComplexSample>>, images |-> 1,
                  layout |-> Repeat(TextBox(501), 6)]>>]

PlainPdf ==
    [kind |-> "pdf",
     pages |-> <<[tables |-> <<SimpleSample>>, images |-> 0,
                  layout |-> <<TextBox(500)>>]>>]

SampleDocx ==
    [kind |-> "docx", tables |-> <<ComplexSample>>, inline_shapes |-> 1,
     paragraphs |-> <<501>>, sections |-> <<2>>]

PlainDocx ==
    [kind |-> "docx", tables |-> <<>>, inline_shapes |-> 0,
     paragraphs |-> <<500>>, sections |-> <<0>>]

SamplePptx ==
    [kind |-> "pptx",
     slides |-> <<Repeat(TextShape(501), 5), <<PictureShape, TableShape(ComplexSample)>>>>]

PlainPptx == [kind |-> "pptx", slides |-> <<<<TextShape(500)>>>>]

SampleDocs == {SamplePdf, PlainPdf, SampleDocx, PlainDocx, SamplePptx, PlainPptx}

\* Types no branch of calculate_document_complexity matches.
\* "PDF", "DOCX", "Pptx", "txt", "doc", "" and None
UnsupportedTypes ==
    {PyStr(<<80, 68, 70>>), PyStr(<<68, 79, 67, 88>>), PyStr(<<80, 112, 116, 120>>),
     PyStr(<<116, 120, 116>>), PyStr(<<100, 111, 99>>), PyStr(<<>>), PyNone}

(***************************************************************************)
(* The upload handler (lines 125-139).  Every Streamlit session runs the   *)
(* script in a thread of the one server process, so all requests share the *)
(* working directory.  A file is the sequence of its blocks, a block being *)
(* what one write or read call transfers.  Block k of an upload is named   *)
(* by the document, the upload's size and k: equal uploads are equal       *)
(* bytes.                                                                  *)
(***************************************************************************)
\* line 125: the choices of the selectbox, "PDF", "DOCX" and "PPTX"
DocTypes == {PyStr(<<80, 68, 70>>), PyStr(<<68, 79, 67, 88>>),
             PyStr(<<80, 80, 84, 88>>)}

\* line 130: f"temp_uploaded.{doc_type.lower()}"
file_path(doc_type) ==
    PyStr(<<116, 101, 109, 112, 95, 117, 112, 108, 111, 97, 100, 101, 100, 46>>
          \o lower(doc_type).val)

Paths == {file_path(t) : t \in DocTypes}

\* No document: the variable doc at rest.
Absent == [kind |-> "absent"]

\* Bytes that are no document of any format.
NotADocument == [kind |-> "none"]

NoFile == [exists |-> FALSE, data |-> <<>>]

\* uploaded_file: a document serialised in size blocks.
Upload(d, size) == [doc |-> d, size |-> size]

block(u, k) == [doc |-> u.doc, size |-> u.size, k |-> k]

\* uploaded_file.read()
bytes_of(u) == [k \in 1..u.size |-> block(u, k)]

\* The zero bytes a write beyond the end of the file leaves before it.
Hole == [doc |-> Absent, size |-> 0, k |-> 0]

\* write(2) of the blocks bs at offset pos of a file opened without O_APPEND.
write_at(data, pos, bs) ==
    LET n   == Len(data)
        end == pos + Len(bs)
    IN  [i \in 1..(IF end > n THEN end ELSE n) |->
            IF i > pos /\ i <= end THEN bs[i - pos]
            ELSE IF i <= n THEN data[i] ELSE Hole]

UploadsOf(doc_type, max_blocks) ==
    IF lower(doc_type) = S_pdf THEN {Upload(SamplePdf, max_blocks), Upload(PlainPdf, 1)}
    ELSE IF lower(doc_type) = S_docx
    THEN {Upload(SampleDocx, max_blocks), Upload(PlainDocx, 1)}
    ELSE {Upload(SamplePptx, max_blocks), Upload(PlainPptx, 1)}

\* The blocks read are exactly the bytes of one upload.
is_whole(got) ==
    /\ got # <<>>
    /\ got[1].size = Len(got)
    /\ \A k \in 1..Len(got) : got[k] = block(Upload(got[1].doc, got[1].size), k)

\* What a library can make of blocks of several files, or of a part of a
\* file: pages of a PDF and slides of a deck are stored and read one by one,
\* so it can see any of the pages (slides) that passed by; the body of a
\* DOCX is one part, so it sees one of the documents.
Mixes(b, got) ==
    LET ds == {got[k].doc : k \in 1..Len(got)} \ {Absent}
        items_of(seq) == {seq[i] : i \in 1..Len(seq)}
        longest(seqs) == CHOOSE n \in {Len(q) : q \in seqs} : \A q \in seqs : Len(q) <= n
        NonEmptySeqs(S, n) == UNION {[1..k -> S] : k \in 1..n}
    IN  IF ds = {} THEN {}
        ELSE IF b = "pdf"
        THEN {PdfDoc(ps) : ps \in NonEmptySeqs(UNION {items_of(d.pages) : d \in ds},
                                               longest({d.pages : d \in ds}))}
        ELSE IF b = "pptx"
        THEN {Deck(ss) : ss \in NonEmptySeqs(UNION {items_of(d.slides) : d \in ds},
                                             longest({d.slides : d \in ds}))}
        ELSE ds

\* The documents a parsing library can see in the blocks an extractor read:
\* the uploaded document when they are one upload's bytes, no document in an
\* empty file, and otherwise no document or a mix.
library_sees(b, got) ==
    IF got = <<>> THEN {NotADocument}
    ELSE IF is_whole(got) THEN {got[1].doc}
    ELSE {NotADocument} \cup Mixes(b, got)

(***************************************************************************)
(* State machines.  Each specification drives one part of the program and  *)
(* leaves the variables of the other parts at rest.                        *)
(***************************************************************************)
Pending == [status |-> "pending", exc |-> "", score |-> F_0, label |-> "", sig |-> NoSignals]

DocPending == [status |-> "pending", exc |-> "", calls |-> <<>>, report |-> NoReport]

NoFeatures == [tables |-> 0, images |-> 0, columns |-> 0, dense |-> 0]

LayoutIdle == [pc |-> "idle", st |-> layout_start, counts |-> <<>>]

TableAtRest == table = <<>> /\ tres = Pending

ScorerAtRest == features = NoFeatures /\ report = NoReport

DocAtRest == doc = Absent /\ file_type = PyNone /\ docres = DocPending

LayoutAtRest == lay = LayoutIdle

UploadAtRest == fs = [p \in Paths |-> NoFile] /\ req = <<>>

\* ---- calculate_table_complexity on one table
InitTable ==
    /\ \E n \in 0..MaxRows : table \in [1..n -> Rows(MaxCols)]
    /\ tres = Pending
    /\ ScorerAtRest /\ DocAtRest /\ LayoutAtRest /\ UploadAtRest

InitGrid ==
    /\ \E blank \in GridBlanks, fill \in GridFills, n \in 0..GridRows :
          table \in [1..n -> GridRowsOf(blank, fill, GridCols)]
    /\ tres = Pending
    /\ ScorerAtRest /\ DocAtRest /\ LayoutAtRest /\ UploadAtRest

\* One call of calculate_table_complexity on the table.
Classify ==
    /\ tres.status = "pending"
    /\ tres' = calculate_table_complexity(table)
    /\ UNCHANGED <<table, features, report, doc, file_type, docres, lay, fs, req>>

SpecTable == InitTable /\ [][Classify]_vars

SpecGrid == InitGrid /\ [][Classify]_vars

\* ---- the scorer on four measurements
InitScore ==
    /\ features \in [tables : 0..MaxMeasure, images : 0..MaxMeasure,
                     columns : 0..MaxMeasure, dense : 0..MaxMeasure]
    /\ report = NoReport
    /\ TableAtRest /\ DocAtRest /\ LayoutAtRest /\ UploadAtRest

\* Lines 105-118 on the measurements.
Score ==
    /\ report = NoReport
    /\ report' = complexity_report(features.tables, features.columns,
                                   features.dense, features.images)
    /\ UNCHANGED <<features, table, tres, doc, file_type, docres, lay, fs, req>>

SpecScore == InitScore /\ [][Score]_vars

\* ---- calculate_document_complexity on one document
InitDoc ==
    /\ \/ /\ \/ doc = Deck(<<>>)
             \/ doc \in {SamplePptx, PlainPptx}
             \/ \E n \in 0..MaxDeckShapes, m \in 1..MaxSlides :
                   \E s \in [1..n -> Shapes], c \in Cuts(m - 1, n) :
                      doc = Deck(SplitAt(s, c))
          /\ file_type = S_pptx
       \/ /\ \E n \in 0..MaxPdfPages :
                \E ps \in [1..n -> PdfPages(MaxPageImages)] : doc = PdfDoc(ps)
          /\ file_type = S_pdf
       \/ /\ \E nt \in 0..MaxDocxTables, n \in 0..MaxDocxImages,
                np \in 0..MaxDocxParagraphs, ns \in 0..MaxDocxSections :
                \E ts \in [1..nt -> {ComplexSample, SimpleSample}],
                   ps \in [1..np -> {500, 501}],
                   cs \in [1..ns -> 0..MaxSectionCols] :
                      doc = DocxDoc(ts, n, ps, cs)
          /\ file_type = S_docx
       \/ doc \in SampleDocs /\ file_type \in UnsupportedTypes
    /\ docres = DocPending
    /\ TableAtRest /\ ScorerAtRest /\ LayoutAtRest /\ UploadAtRest

\* One call of calculate_document_complexity(file_path, file_type).
Analyze ==
    /\ docres.status = "pending"
    /\ docres' = calculate_document_complexity(doc, file_type)
    /\ UNCHANGED <<doc, file_type, table, tres, features, report, lay, fs, req>>

SpecDoc == InitDoc /\ [][Analyze]_vars

\* ---- the loop of analyze_layout_complexity_pdf, page by page
\* The dense text boxes of a page: counts keeps, per page iterated, this number.
DenseBoxes(page_layout) ==
    Cardinality({i \in 1..Len(page_layout) :
        /\ page_layout[i].cls \in {"LTTextBoxHorizontal", "LTTextBoxVertical"}
        /\ page_layout[i].text_len >= 501})

InitLayout ==
    /\ lay = [pc |-> "loop", st |-> layout_start, counts |-> <<>>]
    /\ TableAtRest /\ ScorerAtRest /\ DocAtRest /\ UploadAtRest

\* extract_pages yields the next page: lines 53-56.
LayoutPage ==
    /\ lay.pc = "loop"
    /\ Len(lay.counts) < MaxLayoutPages
    /\ \E page_layout \in SeqsUpTo({TextBox(501), TextBox(500), Figure}, MaxPageElements) :
          lay' = [pc |-> "loop", st |-> layout_page(lay.st, page_layout),
                  counts |-> Append(lay.counts, DenseBoxes(page_layout))]
    /\ UNCHANGED <<table, tres, features, report, doc, file_type, docres, fs, req>>

\* extract_pages is exhausted: line 57.
LayoutReturn ==
    /\ lay.pc = "loop"
    /\ lay' = [lay EXCEPT !.pc = "returned"]
    /\ UNCHANGED <<table, tres, features, report, doc, file_type, docres, fs, req>>

NextLayout == LayoutPage \/ LayoutReturn

SpecLayout == InitLayout /\ [][NextLayout]_vars

\* ---- concurrent uploads
NewRequest(doc_type, upload) ==
    [doc_type |-> doc_type, upload |-> upload, pc |-> "uploaded",
     wpos |-> 0, rpos |-> 0, got |-> <<>>,
     tables |-> 0, images |-> 0, layout |-> <<0, 0>>, reads |-> <<>>,
     report |-> NoReport]

RequestsOf(doc_types, max_blocks) ==
    UNION {{NewRequest(doc_type, upload) : upload \in UploadsOf(doc_type, max_blocks)}
           : doc_type \in doc_types}

InitUpload ==
    /\ fs = [p \in Paths |-> NoFile]
    /\ req \in [1..NumRequests -> RequestsOf(DocTypes, MaxFileBlocks)]
    /\ TableAtRest /\ ScorerAtRest /\ DocAtRest /\ LayoutAtRest

PathOf(r) == file_path(req[r].doc_type)

\* line 135: file_type = doc_type.lower()
BranchOf(r) == branch(lower(req[r].doc_type))

\* line 131: open(file_path, "wb") creates or truncates the file; the handle
\* starts at offset 0.
OpenFile(r) ==
    /\ req[r].pc = "uploaded"
    /\ fs' = [fs EXCEPT ![PathOf(r)] = [exists |-> TRUE, data |-> <<>>]]
    /\ req' = [req EXCEPT ![r].pc = "writing", ![r].wpos = 0]
    /\ UNCHANGED <<table, tres, features, report, doc, file_type, docres, lay>>

\* line 132: f.write(uploaded_file.read()) and the close at the end of the
\* with block.  The next block goes to the file at the handle's offset; with
\* the last one the file is closed.
WriteFile(r) ==
    /\ req[r].pc = "writing"
    /\ fs' = [fs EXCEPT ![PathOf(r)] =
                [exists |-> TRUE,
                 data |-> write_at(@.data, req[r].wpos,
                                   <<block(req[r].upload, req[r].wpos + 1)>>)]]
    /\ req' = [req EXCEPT ![r].wpos = @ + 1,
                          ![r].pc = IF req[r].wpos + 1 = req[r].upload.size
                                    THEN "written" ELSE "writing"]
    /\ UNCHANGED <<table, tres, features, report, doc, file_type, docres, lay>>

\* The extractor whose turn it is: lines 92-94, 96-98, 100-102.
PassOf(r) ==
    IF req[r].pc \in {"written", "reading_tables"} THEN "tables"
    ELSE IF req[r].pc \in {"counted_tables", "reading_images"} THEN "images"
    ELSE "layout"

\* lines 39, 46, 52, 61, 65, 68, 78, 82, 85: the extractor opens file_path.
OpenDocument(r) ==
    /\ req[r].pc \in {"written", "counted_tables", "counted_images"}
    /\ req' = [req EXCEPT ![r].pc = "reading_" \o PassOf(r),
                          ![r].rpos = 0, ![r].got = <<>>]
    /\ UNCHANGED <<fs, table, tres, features, report, doc, file_type, docres, lay>>

\* The library reads the next block the file holds now.
ReadFile(r) ==
    /\ req[r].pc \in {"reading_tables", "reading_images", "reading_layout"}
    /\ req[r].rpos < Len(fs[PathOf(r)].data)
    /\ req' = [req EXCEPT ![r].rpos = @ + 1,
                          ![r].got = Append(@, fs[PathOf(r)].data[req[r].rpos + 1])]
    /\ UNCHANGED <<fs, table, tres, features, report, doc, file_type, docres, lay>>

\* The extractor returns or raises; the blocks it read are kept in reads.
AfterPass(r, out, field, next) ==
    IF out.status = "raised"
    THEN [req EXCEPT ![r].pc = "failed",
                     ![r].reads = Append(@, req[r].got),
                     ![r].got = <<>>]
    ELSE [req EXCEPT ![r].pc = next,
                     ![r][field] = out.val,
                     ![r].reads = Append(@, req[r].got),
                     ![r].got = <<>>]

\* lines 92, 96, 100: the table counter, once it has read to the end of the
\* file, returns or raises.
CountTables(r) ==
    /\ req[r].pc = "reading_tables"
    /\ req[r].rpos >= Len(fs[PathOf(r)].data)
    /\ \E d \in library_sees(BranchOf(r), req[r].got) :
          req' = AfterPass(r, tables_pass(BranchOf(r), d), "tables", "counted_tables")
    /\ UNCHANGED <<fs, table, tres, features, report, doc, file_type, docres, lay>>

\* lines 93, 97, 101
CountImages(r) ==
    /\ req[r].pc = "reading_images"
    /\ req[r].rpos >= Len(fs[PathOf(r)].data)
    /\ \E d \in library_sees(BranchOf(r), req[r].got) :
          req' = AfterPass(r, images_pass(BranchOf(r), d), "images", "counted_images")
    /\ UNCHANGED <<fs, table, tres, features, report, doc, file_type, docres, lay>>

\* lines 94, 98, 102
AnalyzeLayout(r) ==
    /\ req[r].pc = "reading_layout"
    /\ req[r].rpos >= Len(fs[PathOf(r)].data)
    /\ \E d \in library_sees(BranchOf(r), req[r].got) :
          req' = AfterPass(r, layout_pass(BranchOf(r), d), "layout", "analyzed")
    /\ UNCHANGED <<fs, table, tres, features, report, doc, file_type, docres, lay>>

\* lines 103-118 and 136-139: the report is built and rendered.
Render(r) ==
    /\ req[r].pc = "analyzed"
    /\ req' = [req EXCEPT ![r].pc = "rendered",
                          ![r].report = finish(BranchOf(r), req[r].tables,
                                               req[r].layout, req[r].images)]
    /\ UNCHANGED <<fs, table, tres, features, report, doc, file_type, docres, lay>>

NextUpload ==
    \E r \in 1..NumRequests :
        \/ OpenFile(r)
        \/ WriteFile(r)
        \/ OpenDocument(r)
        \/ ReadFile(r)
        \/ CountTables(r)
        \/ CountImages(r)
        \/ AnalyzeLayout(r)
        \/ Render(r)

SpecUpload == InitUpload /\ [][NextUpload]_vars

(***************************************************************************)
(* Properties of the classifier.                                           *)
(***************************************************************************)
Returned == tres.status = "returned"

Called == tres.status # "pending"

\* The weights of the triggered signals, in tenths: 0.4, 0.3, 0.4, 0.3, 0.2.
WeightTenths(sig) ==
    (IF sig.merged THEN 4 ELSE 0) + (IF sig.variation THEN 3 ELSE 0)
    + (IF sig.nested THEN 4 ELSE 0) + (IF sig.header THEN 3 ELSE 0)
    + (IF sig.density THEN 2 ELSE 0)

StepLabel(tenths) ==
    IF tenths <= 3 THEN "Simple" ELSE IF tenths <= 6 THEN "Moderate" ELSE "Complex"

\* C1: on every table on which the call returns, the label is the step
\* function of the sum of the triggered weights: Simple iff the sum is at most
\* 0.3, Moderate iff it is above 0.3 and at most 0.6, Complex iff it is above
\* 0.6; in particular a sum of exactly 0.6 (0.3+0.3 or 0.4+0.2) is Moderate.
C1_LabelIsStepOfWeightSum ==
    Returned =>
        /\ WeightTenths(tres.sig) \in 0..16
        /\ tres.label = StepLabel(WeightTenths(tres.sig))

\* C3: the empty table returns score 0 and label Simple without raising, and
\* every table without cells takes the zero/false defaults of the empty-cell
\* ratio, the nesting test and the word-count statistics.
C3_EmptyTableIsSimple ==
    /\ (Called /\ table = <<>>) =>
          /\ Returned
          /\ tres.score = F_0
          /\ tres.label = "Simple"
          /\ tres.sig = NoSignals
    /\ (Called /\ \A i \in 1..Len(table) : table[i] = <<>>) =>
          /\ Returned
          /\ ~tres.sig.merged /\ ~tres.sig.variation
          /\ ~tres.sig.nested /\ ~tres.sig.density

C3_Witness == Returned /\ table = <<>>

HasListCell(t) == \E i \in 1..Len(t) : \E j \in 1..Len(t[i]) : t[i][j].type = "list"

\* C4: on every table with a list-valued cell the call returns, the nesting
\* signal is triggered, the score is at least 0.4 and the label is not Simple.
C4_ListCellsAreAccepted ==
    (Called /\ HasListCell(table)) =>
        /\ Returned
        /\ tres.sig.nested
        /\ float_le(F_0_4, tres.score)
        /\ tres.label # "Simple"

\* A row in which every non-empty string cell is purely alphabetic; empty
\* strings and cells that are no strings are passed over.
HeaderLike(row) ==
    \A j \in 1..Len(row) :
        (row[j].type = "str" /\ row[j].val # <<>>) =>
            \A k \in 1..Len(row[j].val) : row[j].val[k] \in Alphabetic

\* C7: the repeated-header signal triggers exactly when more than one of the
\* first three rows is header-like.
C7_HeaderSignal ==
    Returned =>
        (tres.sig.header <=>
            Cardinality({i \in 1..Len(table) : i <= 3 /\ HeaderLike(table[i])}) > 1)

\* A cell present in a row that is blank: no value, or a string of nothing
\* but whitespace.
BlankCell(c) ==
    \/ c.type = "NoneType"
    \/ c.type = "str" /\ \A k \in 1..Len(c.val) : c.val[k] \in Whitespace

BlankCount(t) ==
    Cardinality({p \in (1..Len(t)) \X (1..GridCols + 1) :
                    p[2] <= Len(t[p[1]]) /\ BlankCell(t[p[1]][p[2]])})

LongestRow(t) ==
    IF t = <<>> THEN 0
    ELSE CHOOSE m \in 0..GridCols + 1 :
            /\ \E i \in 1..Len(t) : Len(t[i]) = m
            /\ \A i \in 1..Len(t) : Len(t[i]) <= m

\* C8: the empty-cell signal triggers exactly when blank cells / (rows x
\* longest row) is strictly above 0.2, also on ragged tables; exactly 0.2 does
\* not trigger.
C8_EmptyCellSignal ==
    Returned =>
        (tres.sig.merged <=> 5 * BlankCount(table) > Len(table) * LongestRow(table))

\* A ragged table whose ratio is exactly 0.2.
C8_Witness ==
    /\ Returned
    /\ Len(table) = 2 /\ Len(table[1]) # Len(table[2])
    /\ BlankCount(table) > 0
    /\ 5 * BlankCount(table) = Len(table) * LongestRow(table)
    /\ ~tres.sig.merged

(***************************************************************************)
(* Properties of the scorer and of calculate_document_complexity.          *)
(***************************************************************************)
\* C2: for all non-negative measurements the final score is tables * 20 +
\* layout + images * 10, where layout is columns * 20 + dense * 5 when
\* columns > 1 or dense > 0 and 0 otherwise; the level is High iff the score
\* is above 100, Medium iff it is above 50 and at most 100, Low iff it is at
\* most 50.  (2, 3, 1, 0) gives 70/Medium and (2, 3, 2, 0) gives 110/High.
C2_ScorerFormula ==
    report # NoReport =>
        LET t == features.tables
            i == features.images
            c == features.columns
            d == features.dense
            layout == IF c > 1 \/ d > 0 THEN c * 20 + d * 5 ELSE 0
            final == t * 20 + layout + i * 10
        IN  /\ report.FinalComplexityScore = final
            /\ report.ComplexityLevel \in {"High", "Medium", "Low"}
            /\ report.ComplexityLevel = "High" <=> final > 100
            /\ report.ComplexityLevel = "Medium" <=> (final > 50 /\ final <= 100)
            /\ report.ComplexityLevel = "Low" <=> final <= 50
            /\ (t = 2 /\ i = 3 /\ c = 1 /\ d = 0) =>
                  (final = 70 /\ report.ComplexityLevel = "Medium")
            /\ (t = 2 /\ i = 3 /\ c = 2 /\ d = 0) =>
                  (final = 110 /\ report.ComplexityLevel = "High")

\* A score of exactly 100 with a layout term, reported Medium.
C2_Witness ==
    /\ report # NoReport
    /\ features.columns > 1
    /\ report.FinalComplexityScore = 100
    /\ report.ComplexityLevel = "Medium"

\* C6: a file type other than "pdf", "docx", "pptx" (a missing one or one in
\* another case included) makes the call raise before any extractor is
\* called, and no report is returned.
C6_UnsupportedTypeRaises ==
    (docres.status # "pending" /\ file_type \notin {S_pdf, S_docx, S_pptx}) =>
        /\ docres.status = "raised"
        /\ docres.calls = <<>>
        /\ docres.report = NoReport

C6_Witness ==
    /\ docres.status = "raised"
    /\ file_type = PyStr(<<80, 68, 70>>)
    /\ doc = SamplePdf

\* The text-bearing shapes of a deck whose text exceeds 500 characters.
DenseShapes(d) ==
    Cardinality({p \in (1..Len(d.slides)) \X (1..MaxDeckShapes + 1) :
        /\ p[2] <= Len(d.slides[p[1]])
        /\ d.slides[p[1]][p[2]].has_text_frame
        /\ d.slides[p[1]][p[2]].text_len >= 501})

\* C9: on the slide-deck path, with n dense shapes, the column count is 1 if
\* n < 5 and 2 otherwise, the dense-paragraph count reported is 0, and the
\* layout part of the final score is 0 if n < 5 and 40 otherwise.
C9_SlideDeckLayout ==
    (docres.status # "pending" /\ file_type = S_pptx) =>
        LET n == DenseShapes(doc)
            r == docres.report
        IN  /\ docres.status = "returned"
            /\ r.ColumnsDetected = (IF n < 5 THEN 1 ELSE 2)
            /\ r.DenseParagraphs = 0
            /\ r.FinalComplexityScore - r.ComplexTablesFound * 20 - r.ImagesFound * 10
                  = (IF n < 5 THEN 0 ELSE 40)

\* Five dense shapes spread over two slides.
C9_Witness ==
    /\ docres.status = "returned"
    /\ file_type = S_pptx
    /\ Len(doc.slides) = 2 /\ doc.slides[1] # <<>> /\ doc.slides[2] # <<>>
    /\ DenseShapes(doc) = 5
    /\ docres.report.ColumnsDetected = 2

\* C10: at every point of the pass over the pages, dense_paragraphs is the
\* total of the dense text boxes of the pages iterated and num_columns is 2
\* iff some iterated page alone holds more than 5 of them (exactly 5 leaves
\* 1); so a later page never resets a 2.
C10_PdfLayoutPass ==
    lay.pc # "idle" =>
        /\ lay.st.dense_paragraphs = sum_seq(lay.counts)
        /\ lay.st.num_columns =
              (IF \E k \in 1..Len(lay.counts) : lay.counts[k] > 5 THEN 2 ELSE 1)

\* A page of more than 5 dense boxes followed by a page of fewer.
C10_Witness ==
    /\ lay.pc = "returned"
    /\ Len(lay.counts) = 2
    /\ lay.counts[1] > 5 /\ lay.counts[2] < 5
    /\ lay.st.num_columns = 2

(***************************************************************************)
(* Properties of concurrent uploads.                                       *)
(***************************************************************************)
\* C5: whatever the interleaving of the requests' steps, every extractor
\* pass of a request reads the bytes that request uploaded, no request
\* fails, and the report of a request is the report of its own document
\* analysed alone.
C5_RequestsAreIsolated ==
    \A r \in DOMAIN req :
        /\ \A k \in 1..Len(req[r].reads) : req[r].reads[k] = bytes_of(req[r].upload)
        /\ req[r].pc # "failed"
        /\ req[r].pc = "rendered" =>
              req[r].report =
                  calculate_document_complexity(req[r].upload.doc,
                                                lower(req[r].doc_type)).report

====
